---- MODULE Spec2Model ----
(***************************************************************************)
(* The Titanic raw-feature explainability notebook                         *)
(* (hands-on/explainable_ML/explainable_titanic-Copy1.ipynb) as a state    *)
(* machine: one action per statement of the notebook's code cells, run in  *)
(* the notebook's order.  A DataFrame is a record [columns, index, rows]:   *)
(* index holds the row labels, a row is a function from column name to a   *)
(* cell, and a cell is <<>> (NaN) or <<v>>.                                *)
(* Calls into pandas, scikit-learn and sklearn-pandas are modelled by what  *)
(* the called function does to its arguments.  The explain-model package   *)
(* is not part of the repository: a call into it is modelled by what the   *)
(* notebook hands it and what the notebook binds from it, and what the     *)
(* package computes, whether it raises and whether it changes its          *)
(* arguments in place are left open.                                       *)
(***************************************************************************)
EXTENDS Integers, Sequences, FiniteSets, TLC

VARIABLES pc, outcome, csv, data, y, X, x_train, x_test, y_train, y_test,
          transformations, clf, score, tabular_explainer, global_explanation,
          sorted_global_importance_values, sorted_global_importance_names,
          local_explanation, prediction_value,
          sorted_local_importance_values, sorted_local_importance_names,
          changed_in_place

vars == <<pc, outcome, csv, data, y, X, x_train, x_test, y_train, y_test,
          transformations, clf, score, tabular_explainer, global_explanation,
          sorted_global_importance_values, sorted_global_importance_names,
          local_explanation, prediction_value,
          sorted_local_importance_values, sorted_local_importance_names,
          changed_in_place>>

\* ------------------------------------------------------------------ bounds

\* Largest number of rows of the fetched table.
MaxRows == 4

\* ----------------------------------------------------------------- helpers

NaN == <<>>

isna(cell) == cell = NaN

Range(s) == {s[i] : i \in DOMAIN s}

RECURSIVE SumSeq(_)
SumSeq(s) == IF s = <<>> THEN 0 ELSE Head(s) + SumSeq(Tail(s))

\* The elements of a finite set of integers, ascending.
RECURSIVE SortedInts(_)
SortedInts(S) ==
    IF S = {} THEN <<>>
    ELSE LET m == CHOOSE a \in S : \A b \in S : a <= b
         IN <<m>> \o SortedInts(S \ {m})

\* The elements of a finite set of strings in a fixed order (sorted(unique)).
StringOrder == <<"C", "Q", "S", "female", "male", "missing">>

SortedStrings(S) ==
    SelectSeq(StringOrder, LAMBDA s : s \in S)

\* The column `c` of a frame, as the sequence of its cells.
Column(df, c) == [i \in DOMAIN df.rows |-> df.rows[i][c]]

\* A selection that keeps every column of the frame.
SelectColumns_all(df, cols) == df

\* df[cols]: the frame restricted to the columns `cols`, in that order.
SelectColumns(df, cols) ==
    [columns |-> cols, index |-> df.index,
     rows |-> [i \in DOMAIN df.rows |-> [c \in Range(cols) |-> df.rows[i][c]]]]

\* df.iloc[idx]: the rows at the positions `idx`, in that order.
TakeRows(df, idx) ==
    [columns |-> df.columns,
     index |-> [k \in DOMAIN idx |-> df.index[idx[k]]],
     rows |-> [k \in DOMAIN idx |-> df.rows[idx[k]]]]

\* ------------------------------------------------------------- the inputs

\* The columns of the fetched csv that the notebook reads.
CsvColumns == <<"pclass", "survived", "sex", "age", "fare", "embarked">>

mkrow(pclass, survived, sex, age, fare, embarked) ==
    [c \in Range(CsvColumns) |->
        CASE c = "pclass" -> pclass
          [] c = "survived" -> survived
          [] c = "sex" -> sex
          [] c = "age" -> age
          [] c = "fare" -> fare
          [] c = "embarked" -> embarked]

\* The rows a fetched table is made of: passengers with and without missing
\* age, fare and port of embarkation.
RowPool ==
    { mkrow(<<1>>, <<1>>, <<"female">>, <<2>>, <<3>>, <<"S">>),
      mkrow(<<2>>, <<0>>, <<"male">>, NaN, <<1>>, <<"C">>),
      mkrow(<<3>>, <<0>>, <<"male">>, <<1>>, NaN, <<"Q">>),
      mkrow(<<3>>, <<1>>, <<"female">>, NaN, NaN, NaN) }

SeqsUpTo(S, n) == UNION {[1..k -> S] : k \in 1..n}

\* The tables pd.read_csv can return: as in titanic3.csv, every column holds
\* at least one value.
Tables ==
    { [columns |-> CsvColumns, index |-> [i \in DOMAIN r |-> i], rows |-> r] : r \in
        { t \in SeqsUpTo(RowPool, MaxRows) :
            \A c \in Range(CsvColumns) : \E i \in DOMAIN t : ~isna(t[i][c]) } }

\* -------------------------------------------------------------- ingestion

\* One column under fillna(method="ffill"): a NaN cell takes the last value
\* above it, and stays NaN when there is none.
ffill_column(cells) ==
    [i \in DOMAIN cells |->
        IF ~isna(cells[i]) THEN cells[i]
        ELSE LET above == {j \in 1..(i - 1) : ~isna(cells[j])}
             IN IF above = {} THEN NaN
                ELSE cells[CHOOSE j \in above : \A k \in above : k <= j]]

\* One column under fillna(method="bfill"): a NaN cell takes the first value
\* below it, and stays NaN when there is none.
bfill_column(cells) ==
    [i \in DOMAIN cells |->
        IF ~isna(cells[i]) THEN cells[i]
        ELSE LET below == {j \in (i + 1)..Len(cells) : ~isna(cells[j])}
             IN IF below = {} THEN NaN
                ELSE cells[CHOOSE j \in below : \A k \in below : j <= k]]

\* A forward fill that fills nothing.
fillna_ffill_skipped(df) == df

fillna_ffill(df) ==
    [columns |-> df.columns, index |-> df.index,
     rows |-> [i \in DOMAIN df.rows |->
                 [c \in Range(df.columns) |-> ffill_column(Column(df, c))[i]]]]

fillna_bfill(df) ==
    [columns |-> df.columns, index |-> df.index,
     rows |-> [i \in DOMAIN df.rows |->
                 [c \in Range(df.columns) |-> bfill_column(Column(df, c))[i]]]]

\* ------------------------------------------------- features and the split

numeric_features == <<"age", "fare">>

categorical_features == <<"embarked", "sex", "pclass">>

label_column == "survived"

\* train_test_split(test_size=0.2): the test part has ceil(0.2 * n) rows.
n_test(n) == (n + 4) \div 5

n_train(n) == n - n_test(n)

\* The outputs of the generator that random_state=42 seeds (numpy
\* RandomState(42), MT19937: 1608637542, 3421126067, 4083286876, ...), as many
\* as a shuffle of the tables modelled here draws.  A draw for a table of
\* fewer than 2^16 rows reads the low bits of an output only, and the low 16
\* bits are what is kept.
mt19937_seed42 ==
    << 56422, 15795, 860, 38158, 62570,
       54343, 44732, 11284, 54886, 6265 >>

\* The smallest 2^k - 1 that is at least `max`.
RECURSIVE MaskFrom(_, _)
MaskFrom(m, max) == IF m >= max THEN m ELSE MaskFrom(2 * m + 1, max)

\* rk_interval(max), max < 2^16: outputs are masked and drawn again until one
\* is at most `max`; `pos` is the place in the stream, and the place after the draw is
\* returned with the value.
RECURSIVE rk_interval(_, _)
rk_interval(max, pos) ==
    LET value == mt19937_seed42[pos] % (MaskFrom(1, max) + 1)
    IN IF value <= max THEN [value |-> value, next |-> pos + 1]
       ELSE rk_interval(max, pos + 1)

\* RandomState.shuffle(x): for i = n - 1 down to 1, x[i] is swapped with
\* x[j], j drawn from 0..i (Python positions; x is kept from position 1).
RECURSIVE shuffle(_, _, _)
shuffle(x, i, pos) ==
    IF i < 1 THEN x
    ELSE LET draw == rk_interval(i, pos)
             a == i + 1
             b == draw.value + 1
         IN shuffle([p \in DOMAIN x |->
                        IF p = a THEN x[b] ELSE IF p = b THEN x[a] ELSE x[p]],
                    i - 1, draw.next)

\* rng.permutation(n_samples): the row positions 1..n, shuffled.
permutation(n) == shuffle([k \in 1..n |-> k], n - 1, 1)

\* ind_test = permutation[:n_test]
TestIndexes(n) == SubSeq(permutation(n), 1, n_test(n))

\* ind_train = permutation[n_test:(n_test + n_train)]: the train rows are in
\* the order of the shuffle.
TrainIndexes(n) == SubSeq(permutation(n), n_test(n) + 1, n)

\* ------------------------------------------------------ the library version

\* The scikit-learn releases the notebook's imports and constructor calls run
\* with under its kernel (Python 3.7), by what they do in this notebook.  The
\* installed release is not fixed by the repository: a step whose effect
\* depends on it has the effect of any of them.  The two such steps never
\* meet in one run (a split without training rows ends the run before any
\* encoder is fitted), and the mode an encoder was fitted in is kept with it.
\*   "0.20"  train_test_split returns an empty train part; OneHotEncoder is
\*           in legacy mode on integer input
\*   "0.21"  train_test_split refuses an empty train part; OneHotEncoder is
\*           in legacy mode on integer input
\*   "0.22"  (and later) train_test_split refuses an empty train part;
\*           OneHotEncoder has no legacy mode
SklearnVersions == {"0.20", "0.21", "0.22"}

\* ------------------------------------------------------------ the bindings

\* One transformer object: SimpleImputer(strategy, fill_value), StandardScaler()
\* or OneHotEncoder(sparse=False).
Step(kind, strategy, fill_value) ==
    [kind |-> kind, strategy |-> strategy, fill_value |-> fill_value]

ImputerMedian == Step("SimpleImputer", "median", "")

ImputerConstant == Step("SimpleImputer", "constant", "missing")

Scaler == Step("StandardScaler", "", "")

OneHot == Step("OneHotEncoder", "", "")

\* One (columns, transformer) tuple; a Pipeline is the sequence of its steps
\* and a bare transformer a sequence of one step.
Binding(columns, steps) == [columns |-> columns, steps |-> steps]

\* The notebook's binding list.
NotebookTransformations ==
    << Binding(<<"age", "fare">>, <<ImputerMedian, Scaler>>),
       Binding(<<"embarked">>, <<ImputerConstant, OneHot>>),
       Binding(<<"sex", "pclass">>, <<OneHot>>) >>

\* The notebook's list with `fare` left out of every binding.
TransformationsWithoutFare ==
    << Binding(<<"age">>, <<ImputerMedian, Scaler>>),
       Binding(<<"embarked">>, <<ImputerConstant, OneHot>>),
       Binding(<<"sex", "pclass">>, <<OneHot>>) >>

\* The notebook's list with `sex` bound twice.
TransformationsSexTwice ==
    << Binding(<<"age", "fare">>, <<ImputerMedian, Scaler>>),
       Binding(<<"embarked">>, <<ImputerConstant, OneHot>>),
       Binding(<<"sex", "pclass">>, <<OneHot>>),
       Binding(<<"sex">>, <<OneHot>>) >>

\* The notebook's list with one column to a binding.
TransformationsOneColumnEach ==
    << Binding(<<"pclass">>, <<OneHot>>),
       Binding(<<"age">>, <<ImputerMedian, Scaler>>),
       Binding(<<"sex">>, <<OneHot>>),
       Binding(<<"fare">>, <<ImputerMedian, Scaler>>),
       Binding(<<"embarked">>, <<ImputerConstant, OneHot>>) >>

\* The binding lists the cell is run with: the notebook's, and edits of it.
BindingLists ==
    {NotebookTransformations, TransformationsOneColumnEach,
     TransformationsWithoutFare, TransformationsSexTwice}

\* The dtype of a column of the table.
IsStringColumn(c) == c \in {"embarked", "sex"}

\* ---------------------------------------------- transformers: fit, transform

\* A 2-d array on its way through a binding is a sequence of columns, each
\* [raw: the frame column it was made from, cat: the category it indicates
\* (NaN when it is no indicator), cells: its cells].
ArrayOf(df, columns) ==
    [j \in DOMAIN columns |->
        [raw |-> columns[j], cat |-> NaN, cells |-> Column(df, columns[j])]]

RECURSIVE InsertSorted(_, _)
InsertSorted(s, v) ==
    IF s = <<>> THEN <<v>>
    ELSE IF v <= Head(s) THEN <<v>> \o s
    ELSE <<Head(s)>> \o InsertSorted(Tail(s), v)

RECURSIVE SortAscending(_)
SortAscending(s) == IF s = <<>> THEN <<>> ELSE InsertSorted(SortAscending(Tail(s)), Head(s))

\* The values of the cells that are not NaN, in row order.
Present(cells) ==
    LET kept == SelectSeq(cells, LAMBDA c : ~isna(c))
    IN [i \in DOMAIN kept |-> kept[i][1]]

\* Twice the median of a non-empty sequence of numbers: the median of an even
\* count is the mean of the two middle values.
Median2(values) ==
    LET s == SortAscending(values)
        n == Len(s)
    IN IF n % 2 = 1 THEN 2 * s[(n + 1) \div 2]
       ELSE s[n \div 2] + s[n \div 2 + 1]

\* sorted(unique(values)) of one column.
Categories(col) ==
    LET vals == {col.cells[i][1] : i \in {k \in DOMAIN col.cells : ~isna(col.cells[k])}}
    IN IF IsStringColumn(col.raw) THEN SortedStrings(vals) ELSE SortedInts(vals)

\* OneHotEncoder.fit, _handle_deprecations: before 0.22 an encoder built
\* without categories= is put in legacy mode by input that converts to an
\* integer array (no string column, no NaN).
LegacyMode(version, arr) ==
    /\ version \in {"0.20", "0.21"}
    /\ \A j \in DOMAIN arr :
          /\ ~IsStringColumn(arr[j].raw)
          /\ \A i \in DOMAIN arr[j].cells : ~isna(arr[j].cells[i])

\* transformer.fit(array): the fitted attributes.
\*   SimpleImputer   statistics_: per column twice the median, or the fill
\*                   value
\*   StandardScaler  per column n and the sum of the column (mean_ = sum / n)
\*   OneHotEncoder   categories_ per column, and whether the encoder is in
\*                   legacy mode
FitStep(step, arr, version) ==
    IF step.kind = "OneHotEncoder"
    THEN [categories |-> [j \in DOMAIN arr |-> Categories(arr[j])],
          legacy |-> LegacyMode(version, arr)]
    ELSE [j \in DOMAIN arr |->
            IF step.kind = "SimpleImputer"
            THEN IF step.strategy = "median"
                 THEN <<Median2(Present(arr[j].cells))>>
                 ELSE <<step.fill_value>>
            ELSE <<Len(arr[j].cells), SumSeq(Present(arr[j].cells))>>]

\* SimpleImputer.transform on one cell.  Numeric cells leave the median
\* imputer in halves (a median may lie between two values).
ImputeCell(step, stat, cell) ==
    IF step.strategy = "median"
    THEN IF isna(cell) THEN stat ELSE <<2 * cell[1]>>
    ELSE IF isna(cell) THEN stat ELSE cell

\* StandardScaler.transform on one cell: (x - mean_) / scale_, kept as the
\* numerator n * x - sum over the denominator n * scale_.
ScaleCell(stat, cell) == <<stat[1] * cell[1] - stat[2]>>

\* OneHotEncoder.transform on one column: one indicator column per category.
\* A value that is none of the categories, where transform lets it through,
\* gets 0 in every indicator.
EncodeColumn(col, cats) ==
    [k \in DOMAIN cats |->
        [raw |-> col.raw, cat |-> <<cats[k]>>,
         cells |-> [i \in DOMAIN col.cells |->
                      IF col.cells[i] = <<cats[k]>> THEN <<1>> ELSE <<0>>]]]

RECURSIVE Concat(_)
Concat(ss) == IF ss = <<>> THEN <<>> ELSE Head(ss) \o Concat(Tail(ss))

\* transformer.transform(array) with the fitted attributes `params`.
ApplyStep(step, params, arr) ==
    CASE step.kind = "SimpleImputer" ->
            [j \in DOMAIN arr |->
                [arr[j] EXCEPT !.cells =
                    [i \in DOMAIN arr[j].cells |->
                        ImputeCell(step, params[j], arr[j].cells[i])]]]
      [] step.kind = "StandardScaler" ->
            [j \in DOMAIN arr |->
                [arr[j] EXCEPT !.cells =
                    [i \in DOMAIN arr[j].cells |->
                        ScaleCell(params[j], arr[j].cells[i])]]]
      [] step.kind = "OneHotEncoder" ->
            Concat([j \in DOMAIN arr |->
                      EncodeColumn(arr[j], params.categories[j])])

\* Whether transform raises: OneHotEncoder (handle_unknown="error") meets a
\* NaN, or a value that is none of its categories.  In legacy mode the
\* categories are taken to be the range from 0 to the largest value seen by
\* fit: a negative value or one above that largest value raises, and a value
\* within the range that fit did not see passes.
StepRaises(step, params, arr) ==
    /\ step.kind = "OneHotEncoder"
    /\ \E j \in DOMAIN arr : \E i \in DOMAIN arr[j].cells :
          LET cats == params.categories[j]
              cell == arr[j].cells[i]
          IN \/ isna(cell)
             \/ /\ params.legacy
                /\ \/ cell[1] < 0
                   \/ cell[1] > cats[Len(cats)]
             \/ /\ ~params.legacy
                /\ cell[1] \notin Range(cats)

\* Pipeline.fit(array): each step is fitted on the output of the steps before.
RECURSIVE FitSteps(_, _, _)
FitSteps(steps, arr, version) ==
    IF steps = <<>> THEN <<>>
    ELSE LET p == FitStep(Head(steps), arr, version)
         IN <<p>> \o FitSteps(Tail(steps), ApplyStep(Head(steps), p, arr),
                              version)

\* Pipeline.transform(array)
RECURSIVE TransformSteps(_, _, _)
TransformSteps(steps, params, arr) ==
    IF steps = <<>> THEN arr
    ELSE TransformSteps(Tail(steps), Tail(params),
                        ApplyStep(Head(steps), Head(params), arr))

RECURSIVE StepsRaise(_, _, _)
StepsRaise(steps, params, arr) ==
    IF steps = <<>> THEN FALSE
    ELSE \/ StepRaises(Head(steps), Head(params), arr)
         \/ StepsRaise(Tail(steps), Tail(params),
                       ApplyStep(Head(steps), Head(params), arr))

\* DataFrameMapper(bindings).fit(df): every binding's transformer is fitted on
\* the columns the binding names.  No binding list is refused: a frame column
\* no binding names is left out of the output, one named twice is used twice.
MapperFit(bindings, df, version) ==
    [b \in DOMAIN bindings |->
        FitSteps(bindings[b].steps, ArrayOf(df, bindings[b].columns), version)]

\* DataFrameMapper.transform(df): the bindings' outputs side by side, in the
\* order of the bindings.
MapperTransform(bindings, fitted, df) ==
    Concat([b \in DOMAIN bindings |->
              TransformSteps(bindings[b].steps, fitted[b],
                             ArrayOf(df, bindings[b].columns))])

MapperRaises(bindings, fitted, df) ==
    \E b \in DOMAIN bindings :
        StepsRaise(bindings[b].steps, fitted[b], ArrayOf(df, bindings[b].columns))

\* ------------------------------------------------------------ the pipeline

\* The classes LogisticRegression.fit finds: sorted(unique(y_train)).
Classes(labels) == SortedInts(Range(labels))

\* The decision functions a fitted classifier may have over the rows it is
\* later asked about: the solver's arithmetic is not modelled, any fitted
\* coefficients are allowed, and equal rows get equal predictions.
DecisionFunctions(rows, classes) == [Range(rows) -> Range(classes)]

\* clf.predict(df): the pipeline transforms the frame, the classifier decides.
predict(pipeline, df) ==
    [i \in DOMAIN df.rows |-> pipeline.decision[df.rows[i]]]

\* clf.score(df, labels): the accuracy, as <<correct, total>>.
accuracy(pipeline, df, labels) ==
    << Cardinality({i \in DOMAIN labels : predict(pipeline, df)[i] = labels[i]}),
       Len(labels) >>

\* The engineered columns of the mapper's output: for each, the binding that
\* produced it, the raw column it was made from and the category it indicates.
EngineeredColumns(bindings, fitted, df) ==
    Concat([b \in DOMAIN bindings |->
              LET out == TransformSteps(bindings[b].steps, fitted[b],
                                        ArrayOf(df, bindings[b].columns))
              IN [j \in DOMAIN out |->
                    [binding |-> b, raw |-> out[j].raw, cat |-> out[j].cat]]])

\* ------------------------------------------------ the explain-model package

\* The package's code is not in the repository.  An explainer or an
\* explanation is modelled as the request it was made with, a value read
\* from an explanation as the method and index it was read with; the numbers
\* inside are the package's and are left open.  Every call may raise.
\* changed_in_place holds the names of the objects that a call into the
\* package was handed and may have changed in place: after each call either
\* none or all of the objects handed to it are added, and the frames keep the
\* values the notebook bound them to.

\* The outcome of a run in which a call into the package, or a use of a value
\* the package returned, raised.
PackageError == "error raised by the explain-model package"

\* df[:1]
head1(df) ==
    [columns |-> df.columns, index |-> SubSeq(df.index, 1, 1),
     rows |-> SubSeq(df.rows, 1, 1)]

None == <<>>

Init ==
    /\ pc = "read_csv"
    /\ outcome = "running"
    /\ csv \in Tables
    /\ data = None
    /\ y = None
    /\ X = None
    /\ x_train = None
    /\ x_test = None
    /\ y_train = None
    /\ y_test = None
    /\ transformations = None
    /\ clf = None
    /\ score = None
    /\ tabular_explainer = None
    /\ global_explanation = None
    /\ sorted_global_importance_values = None
    /\ sorted_global_importance_names = None
    /\ local_explanation = None
    /\ prediction_value = None
    /\ sorted_local_importance_values = None
    /\ sorted_local_importance_names = None
    /\ changed_in_place = {}

\* data = pd.read_csv(data_url)
ReadCsv ==
    /\ pc = "read_csv"
    /\ data' = csv
    /\ pc' = "ffill"
    /\ UNCHANGED <<outcome, csv, y, X, x_train, x_test, y_train, y_test,
                   transformations, clf, score, tabular_explainer,
                   global_explanation, sorted_global_importance_values,
                   sorted_global_importance_names, local_explanation,
                   prediction_value, sorted_local_importance_values,
                   sorted_local_importance_names>>
    /\ UNCHANGED changed_in_place

\* data = data.fillna(method="ffill")
FillForward ==
    /\ pc = "ffill"
    /\ data' = fillna_ffill(data)
    /\ pc' = "bfill"
    /\ UNCHANGED <<outcome, csv, y, X, x_train, x_test, y_train, y_test,
                   transformations, clf, score, tabular_explainer,
                   global_explanation, sorted_global_importance_values,
                   sorted_global_importance_names, local_explanation,
                   prediction_value, sorted_local_importance_values,
                   sorted_local_importance_names>>
    /\ UNCHANGED changed_in_place

\* data = data.fillna(method="bfill")
FillBackward ==
    /\ pc = "bfill"
    /\ data' = fillna_bfill(data)
    /\ pc' = "select"
    /\ UNCHANGED <<outcome, csv, y, X, x_train, x_test, y_train, y_test,
                   transformations, clf, score, tabular_explainer,
                   global_explanation, sorted_global_importance_values,
                   sorted_global_importance_names, local_explanation,
                   prediction_value, sorted_local_importance_values,
                   sorted_local_importance_names>>
    /\ UNCHANGED changed_in_place

\* y = data["survived"].values ; X = data[categorical_features + numeric_features]
SelectFeatures ==
    /\ pc = "select"
    /\ y' = [i \in DOMAIN data.rows |-> data.rows[i][label_column][1]]
    /\ X' = SelectColumns(data, categorical_features \o numeric_features)
    /\ pc' = "split"
    /\ UNCHANGED <<outcome, csv, data, x_train, x_test, y_train, y_test,
                   transformations, clf, score, tabular_explainer,
                   global_explanation, sorted_global_importance_values,
                   sorted_global_importance_names, local_explanation,
                   prediction_value, sorted_local_importance_values,
                   sorted_local_importance_names>>
    /\ UNCHANGED changed_in_place

\* x_train, x_test, y_train, y_test = train_test_split(X, y, test_size=0.2,
\* random_state=42): the rows are shuffled by the seeded generator, the head
\* of the shuffle is the test part and the rest, in shuffled order, the train
\* part.  For a table too small to leave a training row scikit-learn from
\* 0.21 on raises ValueError, and 0.20 returns an empty train part.
TrainTestSplit ==
    /\ pc = "split"
    /\ LET n == Len(X.rows)
           test == TestIndexes(n)
           train == TrainIndexes(n)
       IN \/ /\ n_train(n) = 0
             /\ \E version \in SklearnVersions : version # "0.20"
             /\ pc' = "error"
             /\ outcome' = "ValueError: train set will be empty"
             /\ UNCHANGED <<x_train, x_test, y_train, y_test>>
          \/ /\ n_train(n) = 0 => "0.20" \in SklearnVersions
             /\ x_train' = TakeRows(X, train)
             /\ x_test' = TakeRows(X, test)
             /\ y_train' = [k \in DOMAIN train |-> y[train[k]]]
             /\ y_test' = [k \in DOMAIN test |-> y[test[k]]]
             /\ pc' = "build"
             /\ UNCHANGED outcome
    /\ UNCHANGED <<csv, data, y, X, transformations, clf, score,
                   tabular_explainer, global_explanation,
                   sorted_global_importance_values,
                   sorted_global_importance_names, local_explanation,
                   prediction_value, sorted_local_importance_values,
                   sorted_local_importance_names>>
    /\ UNCHANGED changed_in_place

frames == <<csv, data, y, X, x_train, x_test, y_train, y_test>>

explanations ==
    <<global_explanation, sorted_global_importance_values,
      sorted_global_importance_names, local_explanation, prediction_value,
      sorted_local_importance_values, sorted_local_importance_names>>

\* transformations = [...] ; clf = Pipeline(steps=[("preprocessor",
\* DataFrameMapper(transformations)), ("classifier", LogisticRegression())]).
\* Neither constructor looks at the columns the bindings name.
BuildPipeline ==
    /\ pc = "build"
    /\ \E t \in BindingLists : transformations' = t
    /\ clf' = [fitted |-> FALSE, preprocessor |-> <<>>, classes |-> <<>>,
               decision |-> <<>>]
    /\ pc' = "fit"
    /\ UNCHANGED <<outcome, frames, score, tabular_explainer, explanations>>
    /\ UNCHANGED changed_in_place

\* model = clf.fit(x_train, y_train): the mapper is fitted on x_train, in
\* place (the transformer objects of the binding list hold what they learnt;
\* it is kept in clf.preprocessor here), and the classifier on its output.
\* The first transformer raises ValueError on a frame without rows, before
\* anything is fitted.  An encoder of integer columns is fitted in legacy
\* mode by the releases that have it.  LogisticRegression raises ValueError
\* when y_train holds one class only: by then the mapper is fitted and
\* classes_ is set, and the pipeline is left partly fitted.
Fit ==
    /\ pc = "fit"
    /\ IF Len(x_train.rows) = 0
       THEN /\ pc' = "error"
            /\ outcome' = "ValueError: found array with 0 samples"
            /\ UNCHANGED clf
       ELSE IF Len(Classes(y_train)) < 2
       THEN /\ pc' = "error"
            /\ outcome' = "ValueError: needs samples of at least 2 classes"
            /\ \E version \in SklearnVersions :
                 clf' = [clf EXCEPT
                           !.preprocessor =
                               MapperFit(transformations, x_train, version),
                           !.classes = Classes(y_train)]
       ELSE /\ \E version \in SklearnVersions :
               \E d \in DecisionFunctions(x_test.rows, Classes(y_train)) :
                 clf' = [fitted |-> TRUE,
                         preprocessor |->
                             MapperFit(transformations, x_train, version),
                         classes |-> Classes(y_train),
                         decision |-> d]
            /\ pc' = "score"
            /\ UNCHANGED outcome
    /\ UNCHANGED <<frames, transformations, score, tabular_explainer,
                   explanations>>
    /\ UNCHANGED changed_in_place

\* print(clf.score(x_test, y_test)): an encoder raises ValueError on a test
\* row with a category the training rows did not have, unless the encoder is
\* in legacy mode and lets the value through.
Score ==
    /\ pc = "score"
    /\ IF MapperRaises(transformations, clf.preprocessor, x_test)
       THEN /\ pc' = "error"
            /\ outcome' = "ValueError: found unknown categories"
            /\ UNCHANGED score
       ELSE /\ score' = accuracy(clf, x_test, y_test)
            /\ pc' = "explainer"
            /\ UNCHANGED outcome
    /\ UNCHANGED <<frames, transformations, clf, tabular_explainer,
                   explanations>>
    /\ UNCHANGED changed_in_place

\* tabular_explainer = TabularExplainer(clf.steps[-1][1],
\*     initialization_examples=x_train, features=x_train.columns,
\*     transformations=transformations)
\* The explainer is what it was built from.  The call may raise, and may
\* have changed in place what it was given.
CreateExplainer ==
    /\ pc = "explainer"
    /\ \/ /\ tabular_explainer' =
                [model |-> [classes |-> clf.classes],
                 initialization_examples |-> x_train,
                 features |-> x_train.columns,
                 transformations |-> transformations]
          /\ \E changed \in {{}, {"x_train", "transformations", "clf"}} :
                changed_in_place' = changed_in_place \cup changed
          /\ pc' = "explain_global"
          /\ UNCHANGED outcome
       \/ /\ pc' = "error"
          /\ outcome' = PackageError
          /\ UNCHANGED <<tabular_explainer, changed_in_place>>
    /\ UNCHANGED <<frames, transformations, clf, score, explanations>>

\* global_explanation = tabular_explainer.explain_global(x_test)
\* The explanation is the request it answers: the values in it are the
\* package's and are not modelled.
ExplainGlobal ==
    /\ pc = "explain_global"
    /\ \/ /\ global_explanation' =
                [explainer |-> tabular_explainer, evaluation_examples |-> x_test]
          /\ \E changed \in {{}, {"x_test"}} :
                changed_in_place' = changed_in_place \cup changed
          /\ pc' = "ranked_global_values"
          /\ UNCHANGED outcome
       \/ /\ pc' = "error"
          /\ outcome' = PackageError
          /\ UNCHANGED <<global_explanation, changed_in_place>>
    /\ UNCHANGED <<frames, transformations, clf, score,
                   tabular_explainer, sorted_global_importance_values,
                   sorted_global_importance_names, local_explanation,
                   prediction_value, sorted_local_importance_values,
                   sorted_local_importance_names>>

\* sorted_global_importance_values = global_explanation.get_ranked_global_values()
RankedGlobalValues ==
    /\ pc = "ranked_global_values"
    /\ \/ /\ sorted_global_importance_values' =
                [explanation |-> global_explanation,
                 method |-> "get_ranked_global_values"]
          /\ pc' = "ranked_global_names"
          /\ UNCHANGED outcome
       \/ /\ pc' = "error"
          /\ outcome' = PackageError
          /\ UNCHANGED sorted_global_importance_values
    /\ UNCHANGED <<frames, transformations, clf, score,
                   tabular_explainer, global_explanation,
                   sorted_global_importance_names, local_explanation,
                   prediction_value, sorted_local_importance_values,
                   sorted_local_importance_names, changed_in_place>>

\* sorted_global_importance_names = global_explanation.get_ranked_global_names()
\* When this call raises, the values of the statement before stay bound.
RankedGlobalNames ==
    /\ pc = "ranked_global_names"
    /\ \/ /\ sorted_global_importance_names' =
                [explanation |-> global_explanation,
                 method |-> "get_ranked_global_names"]
          /\ pc' = "show_ranked_global"
          /\ UNCHANGED outcome
       \/ /\ pc' = "error"
          /\ outcome' = PackageError
          /\ UNCHANGED sorted_global_importance_names
    /\ UNCHANGED <<frames, transformations, clf, score,
                   tabular_explainer, global_explanation,
                   sorted_global_importance_values, local_explanation,
                   prediction_value, sorted_local_importance_values,
                   sorted_local_importance_names, changed_in_place>>

\* dict(zip(sorted_global_importance_names, sorted_global_importance_values))
\* The cell's value is displayed and bound to no name.  Building it iterates
\* and hashes what the package returned, which may raise.
ShowRankedGlobal ==
    /\ pc = "show_ranked_global"
    /\ \/ /\ pc' = "explain_local"
          /\ UNCHANGED outcome
       \/ /\ pc' = "error"
          /\ outcome' = PackageError
    /\ UNCHANGED <<frames, transformations, clf, score, tabular_explainer,
                   explanations, changed_in_place>>

\* local_explanation = tabular_explainer.explain_local(x_test[:1])
ExplainLocal ==
    /\ pc = "explain_local"
    /\ \/ /\ local_explanation' =
                [explainer |-> tabular_explainer,
                 evaluation_examples |-> head1(x_test)]
          /\ \E changed \in {{}, {"x_test"}} :
                changed_in_place' = changed_in_place \cup changed
          /\ pc' = "predict"
          /\ UNCHANGED outcome
       \/ /\ pc' = "error"
          /\ outcome' = PackageError
          /\ UNCHANGED <<local_explanation, changed_in_place>>
    /\ UNCHANGED <<frames, transformations, clf, score,
                   tabular_explainer, global_explanation,
                   sorted_global_importance_values,
                   sorted_global_importance_names, prediction_value,
                   sorted_local_importance_values,
                   sorted_local_importance_names>>

\* prediction_value = clf.predict(x_test)[0]
Predict ==
    /\ pc = "predict"
    /\ prediction_value' = predict(clf, x_test)[1]
    /\ pc' = "ranked_local_values"
    /\ UNCHANGED <<outcome, frames, transformations, clf, score,
                   tabular_explainer, global_explanation,
                   sorted_global_importance_values,
                   sorted_global_importance_names, local_explanation,
                   sorted_local_importance_values,
                   sorted_local_importance_names, changed_in_place>>

\* sorted_local_importance_values =
\*     local_explanation.get_ranked_local_values()[prediction_value]
\* What the method returns is indexed by the predicted label; the call or the
\* subscript may raise.
RankedLocalValues ==
    /\ pc = "ranked_local_values"
    /\ \/ /\ sorted_local_importance_values' =
                [explanation |-> local_explanation,
                 method |-> "get_ranked_local_values",
                 index |-> prediction_value]
          /\ pc' = "ranked_local_names"
          /\ UNCHANGED outcome
       \/ /\ pc' = "error"
          /\ outcome' = PackageError
          /\ UNCHANGED sorted_local_importance_values
    /\ UNCHANGED <<frames, transformations, clf, score,
                   tabular_explainer, global_explanation,
                   sorted_global_importance_values,
                   sorted_global_importance_names, local_explanation,
                   prediction_value, sorted_local_importance_names,
                   changed_in_place>>

\* sorted_local_importance_names =
\*     local_explanation.get_ranked_local_names()[prediction_value]
\* When the call or the subscript raises, the values of the statement before
\* stay bound.
RankedLocalNames ==
    /\ pc = "ranked_local_names"
    /\ \/ /\ sorted_local_importance_names' =
                [explanation |-> local_explanation,
                 method |-> "get_ranked_local_names",
                 index |-> prediction_value]
          /\ pc' = "print_ranked_local"
          /\ UNCHANGED outcome
       \/ /\ pc' = "error"
          /\ outcome' = PackageError
          /\ UNCHANGED sorted_local_importance_names
    /\ UNCHANGED <<frames, transformations, clf, score,
                   tabular_explainer, global_explanation,
                   sorted_global_importance_values,
                   sorted_global_importance_names, local_explanation,
                   prediction_value, sorted_local_importance_values,
                   changed_in_place>>

\* print('ranked local importance values: {}'.format(sorted_local_importance_values))
\* print('ranked local importance names: {}'.format(sorted_local_importance_names))
\* Both statements format what the package returned, which may raise, and
\* bind no name.
PrintRankedLocal ==
    /\ pc = "print_ranked_local"
    /\ \/ /\ pc' = "dashboard"
          /\ UNCHANGED outcome
       \/ /\ pc' = "error"
          /\ outcome' = PackageError
    /\ UNCHANGED <<frames, transformations, clf, score, tabular_explainer,
                   explanations, changed_in_place>>

\* ExplanationDashboard(global_explanation, model, x_test)
Dashboard ==
    /\ pc = "dashboard"
    /\ \/ /\ pc' = "done"
          /\ outcome' = "completed"
          /\ \E changed \in {{}, {"clf", "x_test"}} :
                changed_in_place' = changed_in_place \cup changed
       \/ /\ pc' = "error"
          /\ outcome' = PackageError
          /\ UNCHANGED changed_in_place
    /\ UNCHANGED <<frames, transformations, clf, score, tabular_explainer,
                   explanations>>

\* ------------------------------------------------------ where the run is

HasPipeline == transformations # None

Fitted == HasPipeline /\ clf.fitted

HasExplainer == tabular_explainer # None

\* The bindings of a list that name the column `c`.
BindingsNaming(bindings, c) ==
    {b \in DOMAIN bindings : c \in Range(bindings[b].columns)}

\* A valid binding list: every column of the frame is named by one binding.
ValidBindings(bindings, columns) ==
    \A c \in Range(columns) : Cardinality(BindingsNaming(bindings, c)) = 1

\* A one-to-many binding: one of its steps is a one-hot encoder.
IsOneToMany(binding) ==
    \E i \in DOMAIN binding.steps : binding.steps[i].kind = "OneHotEncoder"

\* ------------------------------------------------------------------ claims

\* C2: a binding list that names some column of X in no binding, or in more
\* than one, never reaches the fitted pipeline and never completes the run.
C2_InvalidBindingsFailBeforeFit ==
    (HasPipeline /\ ~ValidBindings(transformations, X.columns)) =>
        (~clf.fitted /\ pc # "done")

\* C8: the label column is in no frame, binding or feature list passed on
\* after the selection of X.
C8_LabelExcludedFromFeatures ==
    /\ X # None =>
          /\ label_column \notin Range(X.columns)
          /\ \A i \in DOMAIN X.rows : label_column \notin DOMAIN X.rows[i]
    /\ x_train # None =>
          /\ label_column \notin Range(x_train.columns)
          /\ label_column \notin Range(x_test.columns)
          /\ \A i \in DOMAIN x_train.rows : label_column \notin DOMAIN x_train.rows[i]
          /\ \A i \in DOMAIN x_test.rows : label_column \notin DOMAIN x_test.rows[i]
    /\ HasPipeline =>
          \A b \in DOMAIN transformations :
             label_column \notin Range(transformations[b].columns)
    /\ HasExplainer =>
          /\ label_column \notin Range(tabular_explainer.features)
          /\ label_column \notin
                Range(tabular_explainer.initialization_examples.columns)
          /\ LET engineered ==
                    EngineeredColumns(tabular_explainer.transformations,
                                      clf.preprocessor,
                                      tabular_explainer.initialization_examples)
             IN \A j \in DOMAIN engineered :
                   engineered[j].raw # label_column
          /\ \A b \in DOMAIN tabular_explainer.transformations :
                label_column \notin Range(tabular_explainer.transformations[b].columns)

\* C8's case: a run that went through to the end on a table holding the label.
C8_Witness ==
    /\ pc = "done"
    /\ label_column \in Range(data.columns)
    /\ Len(tabular_explainer.features) > 0

\* The cell that fillna(ffill) then fillna(bfill) leaves at row i of a column:
\* its own value, else the nearest value above, else the nearest value below.
FilledCell(cells, i) ==
    LET above == {j \in 1..(i - 1) : cells[j] # NaN}
        below == {j \in (i + 1)..Len(cells) : cells[j] # NaN}
    IN IF cells[i] # NaN THEN cells[i]
       ELSE IF above # {} THEN cells[CHOOSE j \in above : \A h \in above : h <= j]
       ELSE IF below # {} THEN cells[CHOOSE j \in below : \A h \in below : j <= h]
       ELSE NaN

\* What the imputer of binding `b` (its first step) is given on x_train, and
\* what it returns.
ImputerInput(b) == ArrayOf(x_train, transformations[b].columns)

ImputerOutput(b) ==
    ApplyStep(transformations[b].steps[1], clf.preprocessor[b][1], ImputerInput(b))

HasImputer(b) == transformations[b].steps[1].kind = "SimpleImputer"

\* C9 as the spec states it: a numeric cell (age, fare) missing in the raw
\* table reaches the pipeline's imputer missing and leaves it as the column
\* median, and a missing embarked cell leaves it as 'missing'.
C9_MissingCellsFilledByImputer ==
    Fitted =>
      \A k \in DOMAIN x_train.rows :
        \A b \in DOMAIN transformations :
          \A j \in DOMAIN transformations[b].columns :
            LET c == transformations[b].columns[j]
                missing == csv.rows[x_train.index[k]][c] = NaN
            IN (HasImputer(b) /\ missing) =>
                  /\ ImputerInput(b)[j].cells[k] = NaN
                  /\ c \in Range(numeric_features) =>
                        ImputerOutput(b)[j].cells[k]
                           = <<Median2(Present(ImputerInput(b)[j].cells))>>
                  /\ c = "embarked" =>
                        ImputerOutput(b)[j].cells[k] = <<"missing">>

\* C9 as amended: no row is lost between the fetched table and the fitted
\* mapper's output, every missing cell is filled at ingestion with the nearest
\* value above it in its column (the nearest below when none is above), and
\* the pipeline's imputers are given no missing cell and change no value.
C9_MissingCellsFilledAtIngestion ==
    /\ pc \notin {"read_csv", "ffill", "bfill"} =>
          /\ Len(data.rows) = Len(csv.rows)
          /\ \A c \in Range(csv.columns) :
                LET cells == Column(csv, c)
                IN \A i \in DOMAIN cells :
                      /\ data.rows[i][c] = FilledCell(cells, i)
                      /\ data.rows[i][c] # NaN
    /\ x_train # None =>
          /\ Len(x_train.rows) + Len(x_test.rows) = Len(csv.rows)
          /\ Range(x_train.index) \cup Range(x_test.index) = DOMAIN csv.rows
    /\ Fitted =>
          \A b \in DOMAIN transformations :
             LET input == ImputerInput(b)
                 output == ImputerOutput(b)
                 engineered == TransformSteps(Tail(transformations[b].steps),
                                              Tail(clf.preprocessor[b]), output)
                 median == transformations[b].steps[1].strategy = "median"
             IN /\ \A e \in DOMAIN engineered :
                      Len(engineered[e].cells) = Len(x_train.rows)
                /\ HasImputer(b) =>
                     \A j \in DOMAIN transformations[b].columns :
                        LET given == input[j].cells
                            raw == input[j].raw
                        IN /\ given = [k \in DOMAIN x_train.rows |->
                                          data.rows[x_train.index[k]][raw]]
                           /\ \A k \in DOMAIN given : given[k] # NaN
                           /\ output[j].cells =
                                 [k \in DOMAIN given |->
                                     IF median THEN <<2 * given[k][1]>>
                                     ELSE given[k]]

\* C9's case: a fitted pipeline whose training rows hold a cell that was
\* missing in the raw table, for age and for embarked, the age cell filled
\* with a value that is not the median of the column.
C9_Witness ==
    /\ Fitted
    /\ transformations = NotebookTransformations
    /\ \E k \in DOMAIN x_train.rows :
          /\ csv.rows[x_train.index[k]]["age"] = NaN
          /\ 2 * x_train.rows[k]["age"][1] # Median2(Present(Column(x_train, "age")))
    /\ \E k \in DOMAIN x_train.rows : csv.rows[x_train.index[k]]["embarked"] = NaN

\* C10: every one-to-many (one-hot) binding passed to the explainer names a
\* single raw column.
C10_OneHotBindingsNameOneColumn ==
    HasExplainer =>
      \A b \in DOMAIN tabular_explainer.transformations :
         IsOneToMany(tabular_explainer.transformations[b]) =>
            Len(tabular_explainer.transformations[b].columns) = 1

Next ==
    \/ ReadCsv
    \/ FillForward
    \/ FillBackward
    \/ SelectFeatures
    \/ TrainTestSplit
    \/ BuildPipeline
    \/ Fit
    \/ Score
    \/ CreateExplainer
    \/ ExplainGlobal
    \/ RankedGlobalValues
    \/ RankedGlobalNames
    \/ ShowRankedGlobal
    \/ ExplainLocal
    \/ Predict
    \/ RankedLocalValues
    \/ RankedLocalNames
    \/ PrintRankedLocal
    \/ Dashboard

Spec == Init /\ [][Next]_vars

====
